---- MODULE Spec2Model ----
(***************************************************************************)
(* Bookstore backend: authentication session management.                   *)
(*                                                                         *)
(* State: the "users" and "refreshTokens" collections, the clock, the      *)
(* uuid source, and one record of locals per in-flight request handler.    *)
(* Each handler of controllers/authControllers is split at the awaits that *)
(* touch the refreshTokens collection; every step between two such awaits  *)
(* is one action.                                                          *)
(***************************************************************************)
EXTENDS Integers, Sequences, FiniteSets, TLC

VARIABLES
    users,          \* collection "users"
    refreshTokens,  \* collection "refreshTokens"
    nextUuid,       \* next value uuidv4() returns (every call returns a fresh one)
    now,            \* Date.now(), in days
    pc,             \* pc[p]: position of request handler p
    req,            \* req[p]: the request handler p serves (body, cookies)
    doc,            \* doc[p]: refreshTokenDoc, the document findOne returned to p
    rot,            \* rot[p]: newRefreshTokenPlain and newExpiresAt of p
    hist,           \* hist[p]: what held of the store when p's call began
    last,           \* the call answered last: its request, response and hist
    jar,            \* <<refreshToken, tokenFamily>> cookie pairs delivered so far
    log,            \* successful rotations so far: [tok, fam, newTok]
    gateReq,        \* requireRole: the request and the roles it was built with
    gateRes,        \* requireRole: what it did with the request
    books,          \* collection "books"
    http,           \* the request to a guarded route and how far it got
    errCall,        \* handleErrors: the error it was given and what it answered
    regCall,        \* regCall[p]: the register call handler p serves
    regLog,         \* the answers of the register calls so far: <<email, status>>
    accessToken,    \* api/client: the access token held in memory, NullToken if none
    isRefreshing,   \* api/client: a POST /auth/refresh was started and has not returned
    refreshSubscribers, \* api/client: the callbacks queued, each named by its request
    call,           \* call[c]: httpClient call c: position, endpoint, token sent
    clientUser,     \* AuthProvider: user, NoClientUser if null
    isLoading,      \* AuthProvider: isLoading
    rounds,         \* the refreshes started so far and how each ended
    issued,         \* the access tokens the server has handed to this client
    isConnected,    \* config/mongoDB: isConnected
    conn,           \* conn[k]: connectMongoDB call k: position and result
    opened,         \* how many times mongoose.connect was initiated
    troubled,       \* a connection failed or a disconnected event was delivered
    connection,     \* mongoose.connection: readyState and the listeners registered
    processEnv,     \* process.env: JWT_SECRET, MONGODB_URI, MONGO_URI, PORT
    boot,           \* main and startServer: position, listening, exit code, report
    items           \* CartProvider: items

vars == <<users, refreshTokens, nextUuid, now, pc, req, doc, rot, hist, last,
          jar, log, gateReq, gateRes, books, http, errCall, regCall, regLog,
          accessToken, isRefreshing, refreshSubscribers, call, clientUser, isLoading,
          rounds, issued, isConnected, conn, opened, troubled, connection, processEnv,
          boot, items>>

sessionVars == <<users, refreshTokens, nextUuid, now, pc, req, doc, rot, hist,
                 last, jar, log>>

gateVars == <<gateReq, gateRes>>

apiVars == <<books, http, errCall, regCall, regLog>>

clientVars == <<accessToken, isRefreshing, refreshSubscribers, call, clientUser,
                isLoading, rounds, issued>>

connVars == <<isConnected, conn, opened, troubled, connection, processEnv>>

appVars == <<clientVars, connVars, boot, items>>

----------------------------------------------------------------------------
(* Bounds of the model *)

MaxUuid == 4
MaxTime == 8
MaxAllowed == 3
MaxBooks == 2
MaxRegs == 3
MaxCalls == 2
MaxTokens == 2
MaxRounds == 2
MaxCallers == 2
MaxOpened == 3
MaxQuantity == 3

(* Two request handlers in flight at a time *)
Procs == {1, 2}

(* Program constants *)

REFRESH_TOKEN_EXPIRES_IN_DAYS == 7

(* "15m": less than one unit of the clock (a day).  An access token is valid *)
(* at the time it was signed and expired one unit later.                     *)
ACCESS_TOKEN_EXPIRES_IN == 1

Roles == {"admin", "user"}

(* Values *)

NoCookie == 0               \* req.cookies.x is undefined
Forged == MaxUuid + 1       \* a cookie value uuidv4() never returned
NullDate == 0               \* revokedAt: null
NullHash == <<>>            \* replacedByTokenHash: null

----------------------------------------------------------------------------
(* bcryptjs: a digest is not its plaintext, and compare() accepts exactly   *)
(* the plaintext the digest was made from.                                  *)

BcryptHash(plain) == <<plain>>

BcryptCompare(plain, digest) == digest = BcryptHash(plain)

----------------------------------------------------------------------------
(* The users collection as seeded and registered before the run *)

SeedUsers ==
    { [id |-> 1, name |-> "Ana", email |-> "a@x.com",
       password |-> BcryptHash("Secret1!"), role |-> "user"],
      [id |-> 2, name |-> "System Administrator", email |-> "admin@x.com",
       password |-> BcryptHash("Admin123!"), role |-> "admin"] }

Emails == {"a@x.com", "A@X.com", "admin@x.com", "nobody@x.com", "not-an-email"}

Passwords == {"", "Secret1!", "Admin123!", "wrong"}

(* z.email(): the format check *)
IsEmail(e) == e # "not-an-email"

(* .toLowerCase() of LoginUserSchema *)
ToLowerCase(e) ==
    IF e = "A@X.com" THEN "a@x.com" ELSE IF e = "New@X.com" THEN "new@x.com" ELSE e

(* LoginUserSchema.safeParse(req.body).success *)
LoginUserSchemaOk(email, password) == IsEmail(email) /\ password # ""

(* User.findOne({ email }) *)
FindUserByEmail(us, email) == {u \in us : u.email = email}

(* a lookup that takes no account of the id *)
FindUserByIdAny(us, id) == us

(* User.findById(id) *)
FindUserById(us, id) == {u \in us : u.id = id}

(* an access payload that is the whole user document *)
AccessPayloadWhole(u) == u

(* the public projection { id, name, email, role } *)
AccessPayload(u) ==
    [id |-> u.id, name |-> u.name, email |-> u.email, role |-> u.role]

(* the data object of the login response *)
LoginData(u) ==
    [id |-> u.id, name |-> u.name, email |-> u.email, role |-> u.role]

(* process.env.JWT_SECRET, which startServer requires to be set *)
JwtSecret == "JWT_SECRET"

(* the signature: a keyed digest of what the token says *)
Hmac(secretKey, payload, iat, exp) == <<secretKey, payload, iat, exp>>

(* jwt.sign(accessPayload, secretKey, { expiresIn }): three parts, the       *)
(* claims with iat and exp added, and the signature over them                *)
JwtSign(payload, iat) ==
    [parts |-> 3, payload |-> payload, iat |-> iat,
     exp |-> iat + ACCESS_TOKEN_EXPIRES_IN,
     sig |-> Hmac(JwtSecret, payload, iat, iat + ACCESS_TOKEN_EXPIRES_IN)]

NoClaims == [id |-> 0, name |-> "", email |-> "", role |-> ""]

(* a string that is not three dot-separated parts *)
MalformedToken == [parts |-> 1, payload |-> NoClaims, iat |-> 0, exp |-> 0, sig |-> <<>>]

(* what jwt.verify returns: the claims as signed, iat and exp among them *)
Decoded(token) ==
    [f \in DOMAIN token.payload \cup {"iat", "exp"} |->
        IF f = "iat" THEN token.iat
        ELSE IF f = "exp" THEN token.exp
        ELSE token.payload[f]]

(* a verification that does not look at the signature *)
JwtVerifyUnsigned(token, secretKey, t) ==
    IF token.parts # 3 THEN [error |-> "JsonWebTokenError", decoded |-> <<>>]
    ELSE IF t >= token.exp THEN [error |-> "TokenExpiredError", decoded |-> <<>>]
    ELSE [error |-> "", decoded |-> <<Decoded(token)>>]

(* a verification that reports every failure as one kind *)
JwtVerifyOneKind(token, secretKey, t) ==
    IF \/ token.parts # 3
       \/ token.sig # Hmac(secretKey, token.payload, token.iat, token.exp)
       \/ t >= token.exp
    THEN [error |-> "JsonWebTokenError", decoded |-> <<>>]
    ELSE [error |-> "", decoded |-> <<Decoded(token)>>]

(* jwt.verify(token, secretKey) at time t: the shape, then the signature,    *)
(* then exp                                                                  *)
JwtVerify(token, secretKey, t) ==
    IF token.parts # 3 THEN [error |-> "JsonWebTokenError", decoded |-> <<>>]
    ELSE IF token.sig # Hmac(secretKey, token.payload, token.iat, token.exp)
    THEN [error |-> "JsonWebTokenError", decoded |-> <<>>]
    ELSE IF t >= token.exp THEN [error |-> "TokenExpiredError", decoded |-> <<>>]
    ELSE [error |-> "", decoded |-> <<Decoded(token)>>]

----------------------------------------------------------------------------
(* Responses *)

NoResponse ==
    [status |-> 0, message |-> "", cookies |-> <<>>, token |-> <<>>, data |-> <<>>]

(* a failure answer that sets the two cookies again *)
FailSettingCookies(status, message) ==
    [status |-> status, message |-> message, cookies |-> <<NoCookie, NoCookie>>,
     token |-> <<>>, data |-> <<>>]

(* res.status(status).json({ success: false, message }) *)
Fail(status, message) ==
    [status |-> status, message |-> message, cookies |-> <<>>, token |-> <<>>,
     data |-> <<>>]

MsgInvalidLogin == "Invalid login data"
MsgInvalidCredentials == "Invalid credentials"
MsgMissing == "Refresh token and token family required"
MsgInvalidOrExpired == "Invalid or expired refresh token"
MsgInvalidToken == "Invalid refresh token"
MsgReuse == "Token reuse detected. Please login again."
MsgUserNotFound == "User not found"
MsgUnexpected == "An unexpected error occurred. Please try again later."

----------------------------------------------------------------------------
(* The refreshTokens collection *)

NoDoc ==
    [id |-> 0, userId |-> 0, tokenHash |-> NullHash, tokenFamily |-> 0,
     expiresAt |-> 0, revokedAt |-> NullDate, replacedByTokenHash |-> NullHash]

(* a record that is created already revoked *)
NewRefreshTokenRevoked(userId, plain, family, expiresAt) ==
    [id |-> plain, userId |-> userId, tokenHash |-> BcryptHash(plain),
     tokenFamily |-> family, expiresAt |-> expiresAt,
     revokedAt |-> expiresAt, replacedByTokenHash |-> NullHash]

(* RefreshToken.create({ userId, tokenHash, tokenFamily, expiresAt }) with   *)
(* the schema defaults revokedAt: null, replacedByTokenHash: null            *)
NewRefreshToken(userId, plain, family, expiresAt) ==
    [id |-> plain, userId |-> userId, tokenHash |-> BcryptHash(plain),
     tokenFamily |-> family, expiresAt |-> expiresAt,
     revokedAt |-> NullDate, replacedByTokenHash |-> NullHash]

(* findOne by family alone, without the revokedAt and expiresAt conditions *)
FindByFamilyOnly(rts, family, t) == {r \in rts : r.tokenFamily = family}

(* The filter of RefreshToken.findOne: { tokenFamily, revokedAt: null,       *)
(* expiresAt: { $gt: new Date() } }.  The query has no sort: which of the    *)
(* matching documents it returns is up to the store.                         *)
FindActiveByFamily(rts, family, t) ==
    {r \in rts : r.tokenFamily = family /\ r.revokedAt = NullDate /\ r.expiresAt > t}

(* a handler without the replaced test *)
IsReplacedNever(d) == FALSE

(* if (refreshTokenDoc.replacedByTokenHash) *)
IsReplaced(d) == d.replacedByTokenHash # NullHash

(* a handler that revokes the family when it detects reuse *)
OnReuseRevokeFamily(rts, family, t) ==
    {IF r.tokenFamily = family /\ r.revokedAt = NullDate
        THEN [r EXCEPT !.revokedAt = t] ELSE r : r \in rts}

(* What the handler does to the collection when it detects reuse: nothing *)
OnReuse(rts, family, t) == rts

(* refreshTokenDoc.save() after replacedByTokenHash was assigned: an update  *)
(* of that one path of the document with this _id, whatever the stored       *)
(* document holds by now.                                                    *)
SaveReplaced(rts, d, newHash) ==
    {IF r.id = d.id THEN [r EXCEPT !.replacedByTokenHash = newHash] ELSE r : r \in rts}

----------------------------------------------------------------------------
(* Request handlers *)

NoReq ==
    [op |-> "none", email |-> "", password |-> "",
     refreshToken |-> NoCookie, tokenFamily |-> NoCookie, userId |-> 0]

NoUser == [id |-> 0, name |-> "", email |-> "", password |-> NullHash, role |-> ""]

NoRot == [plain |-> 0, expiresAt |-> 0, user |-> NoUser]

NoHist == [reused |-> FALSE, stored |-> FALSE, active |-> FALSE, chain |-> FALSE]

NoCall == [req |-> NoReq, res |-> NoResponse, hist |-> NoHist]

(* The cookie pairs a client can present: one it was given, none, a forged   *)
(* token for a family it knows, a token without its family, forged both.     *)
CookieInputs ==
    jar \cup {<<NoCookie, NoCookie>>, <<Forged, Forged>>}
        \cup {<<Forged, c[2]>> : c \in jar}
        \cup {<<c[1], NoCookie>> : c \in jar}

(* A request is taken by the first handler that is idle (handlers are       *)
(* interchangeable)                                                          *)
Takes(p) == pc[p] = "idle" /\ \A q \in Procs : q < p => pc[q] # "idle"

(* What "last" keeps of a request: all but the cookie values presented *)
Observed(rq) == [rq EXCEPT !.refreshToken = NoCookie, !.tokenFamily = NoCookie]

(* Handler p answers request rq with r and returns *)
Respond(p, rq, r, h) ==
    /\ last' = [req |-> Observed(rq), res |-> r, hist |-> h]
    /\ pc' = [pc EXCEPT ![p] = "idle"]
    /\ req' = [req EXCEPT ![p] = NoReq]
    /\ doc' = [doc EXCEPT ![p] = NoDoc]
    /\ rot' = [rot EXCEPT ![p] = NoRot]
    /\ hist' = [hist EXCEPT ![p] = NoHist]

(* res.cookie("refreshToken", ...), res.cookie("tokenFamily", ...),          *)
(* res.status(200).json({ success, message, token, data }); the answer of   *)
(* refreshAccessToken has no data                                            *)
Ok(message, plain, family, token, data) ==
    [status |-> 200, message |-> message, cookies |-> <<plain, family>>,
     token |-> <<token>>, data |-> data]

----------------------------------------------------------------------------
(* loginUser.  Its only write is the last store call, RefreshToken.create;   *)
(* what it reads before, the users collection, no action here changes.       *)

LoginReq(email, password) ==
    [NoReq EXCEPT !.op = "login", !.email = email, !.password = password]

(* a login that tells an unknown email from a wrong password *)
LoginOutcomeTelling(us, email, password) ==
    IF ~LoginUserSchemaOk(email, password) THEN Fail(400, MsgInvalidLogin)
    ELSE LET found == FindUserByEmail(us, ToLowerCase(email)) IN
         IF found = {} THEN Fail(404, MsgUserNotFound)
         ELSE LET user == CHOOSE u \in found : TRUE IN
              IF ~BcryptCompare(password, user.password)
              THEN Fail(401, MsgInvalidCredentials)
              ELSE Ok("Login successful", nextUuid + 1, nextUuid,
                      JwtSign(AccessPayload(user), now), <<LoginData(user)>>)

LoginOutcome(us, email, password) ==
    IF ~LoginUserSchemaOk(email, password) THEN Fail(400, MsgInvalidLogin)
    ELSE LET found == FindUserByEmail(us, ToLowerCase(email)) IN
         IF found = {} THEN Fail(401, MsgInvalidCredentials)
         ELSE LET user == CHOOSE u \in found : TRUE IN
              IF ~BcryptCompare(password, user.password)
              THEN Fail(401, MsgInvalidCredentials)
              ELSE Ok("Login successful", nextUuid + 1, nextUuid,
                      JwtSign(AccessPayload(user), now), <<LoginData(user)>>)

LoginUser(p, email, password) ==
    /\ Takes(p)
    /\ LET out == LoginOutcome(users, email, password) IN
       /\ Respond(p, LoginReq(email, password), out, NoHist)
       /\ IF out.status = 200
          THEN /\ nextUuid + 1 <= MaxUuid
               /\ LET user == CHOOSE u \in FindUserByEmail(users, ToLowerCase(email)) : TRUE IN
                  refreshTokens' = refreshTokens \cup
                      {NewRefreshToken(user.id, nextUuid + 1, nextUuid,
                                       now + REFRESH_TOKEN_EXPIRES_IN_DAYS)}
               /\ nextUuid' = nextUuid + 2
               /\ jar' = jar \cup {<<nextUuid + 1, nextUuid>>}
          ELSE UNCHANGED <<refreshTokens, nextUuid, jar>>
    /\ UNCHANGED <<users, now, log, gateVars, appVars, apiVars>>

----------------------------------------------------------------------------
(* refreshAccessToken *)

RefreshReq(tok, fam) ==
    [NoReq EXCEPT !.op = "refresh", !.refreshToken = tok, !.tokenFamily = fam]

(* What held of the store when the call began *)
HistAt(tok, fam) ==
    [reused |-> \E l \in log : l.tok = tok /\ l.fam = fam,
     stored |-> \E r \in refreshTokens : BcryptCompare(tok, r.tokenHash),
     active |-> \E r \in refreshTokens :
                    /\ BcryptCompare(tok, r.tokenHash)
                    /\ r.revokedAt = NullDate /\ r.expiresAt > now,
     chain  |-> /\ \E r \in refreshTokens :
                    /\ BcryptCompare(tok, r.tokenHash) /\ r.tokenFamily = fam
                    /\ ~IsReplaced(r)
                /\ \A r \in refreshTokens :
                    r.tokenFamily = fam => r.revokedAt = NullDate /\ r.expiresAt > now
                /\ \A q \in Procs : pc[q] = "idle"]

(* Steps 1 to 7 up to the first write: cookies, findOne, bcryptjs.compare,   *)
(* the replaced check, User.findById, uuidv4, bcryptjs.hash, newExpiresAt.   *)
(* One action: of the store these steps only read, refreshTokens once, in    *)
(* findOne, and users, which no action here changes.                         *)
RefreshLookup(p, tok, fam) ==
    /\ Takes(p)
    /\ LET found == FindActiveByFamily(refreshTokens, fam, now)
           rq == RefreshReq(tok, fam)
           h == HistAt(tok, fam)
       IN
       IF tok = NoCookie \/ fam = NoCookie
       THEN Respond(p, rq, Fail(401, MsgMissing), h) /\ UNCHANGED <<refreshTokens, nextUuid>>
       ELSE IF found = {}
       THEN Respond(p, rq, Fail(401, MsgInvalidOrExpired), h)
            /\ UNCHANGED <<refreshTokens, nextUuid>>
       ELSE \E d \in found :
              IF ~BcryptCompare(tok, d.tokenHash)
              THEN Respond(p, rq, Fail(401, MsgInvalidToken), h)
                   /\ UNCHANGED <<refreshTokens, nextUuid>>
              ELSE IF IsReplaced(d)
              THEN /\ Respond(p, rq, Fail(401, MsgReuse), h)
                   /\ refreshTokens' = OnReuse(refreshTokens, fam, now)
                   /\ UNCHANGED nextUuid
              ELSE IF FindUserById(users, d.userId) = {}
              THEN Respond(p, rq, Fail(401, MsgUserNotFound), h)
                   /\ UNCHANGED <<refreshTokens, nextUuid>>
              ELSE /\ nextUuid <= MaxUuid
                   /\ pc' = [pc EXCEPT ![p] = "save"]
                   /\ req' = [req EXCEPT ![p] = rq]
                   /\ doc' = [doc EXCEPT ![p] = d]
                   /\ hist' = [hist EXCEPT ![p] = h]
                   /\ rot' = [rot EXCEPT ![p] =
                                 [plain |-> nextUuid,
                                  expiresAt |-> now + REFRESH_TOKEN_EXPIRES_IN_DAYS,
                                  user |-> CHOOSE u \in FindUserById(users, d.userId) : TRUE]]
                   /\ nextUuid' = nextUuid + 1
                   /\ UNCHANGED <<last, refreshTokens>>
    /\ UNCHANGED <<users, now, jar, log, gateVars, appVars, apiVars>>

(* refreshTokenDoc.replacedByTokenHash = newRefreshTokenHash; await save().  *)
(* save() of a document the collection no longer holds rejects, and the      *)
(* catch hands the error to handleErrors.                                    *)
RefreshSave(p) ==
    /\ pc[p] = "save"
    /\ IF \E r \in refreshTokens : r.id = doc[p].id
       THEN /\ refreshTokens' =
                  SaveReplaced(refreshTokens, doc[p], BcryptHash(rot[p].plain))
            /\ pc' = [pc EXCEPT ![p] = "create"]
            /\ UNCHANGED <<req, doc, rot, hist, last>>
       ELSE /\ Respond(p, req[p], Fail(500, MsgUnexpected), hist[p])
            /\ UNCHANGED refreshTokens
    /\ UNCHANGED <<users, nextUuid, now, jar, log, gateVars, appVars, apiVars>>

(* RefreshToken.create of the successor, jwt.sign, the cookies, the answer *)
RefreshCreate(p) ==
    /\ pc[p] = "create"
    /\ LET user == rot[p].user IN
       /\ refreshTokens' = refreshTokens \cup
              {NewRefreshToken(user.id, rot[p].plain, req[p].tokenFamily,
                               rot[p].expiresAt)}
       /\ Respond(p, req[p],
                  Ok("Token refreshed successfully", rot[p].plain,
                     req[p].tokenFamily, JwtSign(AccessPayload(user), now), <<>>),
                  hist[p])
    /\ jar' = jar \cup {<<rot[p].plain, req[p].tokenFamily>>}
    /\ log' = log \cup {[tok |-> req[p].refreshToken, fam |-> req[p].tokenFamily,
                         newTok |-> rot[p].plain]}
    /\ UNCHANGED <<users, nextUuid, now, gateVars, appVars, apiVars>>

----------------------------------------------------------------------------
(* logoutUser and logoutAllDevices: routed in routes/authRoutes, their code  *)
(* is not part of the sources at hand; modelled from the specification of    *)
(* Logout and LogoutAllDevices.                                              *)

(* revoke(id): revokedAt = now on that record *)
Revoke(rts, d, t) ==
    {IF r.id = d.id THEN [r EXCEPT !.revokedAt = t] ELSE r : r \in rts}

(* a revocation that does not look at the owner *)
RevokeAllOfEveryone(rts, userId, t) ==
    {IF r.revokedAt = NullDate THEN [r EXCEPT !.revokedAt = t] ELSE r : r \in rts}

(* revokeAllForUser(userId): revokedAt = now on every non-revoked record    *)
(* the user owns                                                             *)
RevokeAllForUser(rts, userId, t) ==
    {IF r.userId = userId /\ r.revokedAt = NullDate
        THEN [r EXCEPT !.revokedAt = t] ELSE r : r \in rts}

(* Logout answers { success: true } whatever it found, and clears cookies *)
LogoutOk ==
    [status |-> 200, message |-> "Logged out", cookies |-> <<>>, token |-> <<>>,
     data |-> <<>>]

(* a logout that fails when it finds no active record *)
LogoutOutcomeStrict(found) ==
    IF found = {} THEN Fail(401, MsgInvalidOrExpired) ELSE LogoutOk

LogoutOutcome(found) == LogoutOk

LogoutReq(tok, fam) ==
    [NoReq EXCEPT !.op = "logout", !.refreshToken = tok, !.tokenFamily = fam]

(* The stores a Logout presenting (tok, fam) at time t can leave: it looks   *)
(* up the active record by family and, if found, revokes it                  *)
LogoutEffect(rts, tok, fam, t) ==
    LET found == FindActiveByFamily(rts, fam, t) IN
    IF found = {} THEN {rts} ELSE {Revoke(rts, d, t) : d \in found}

LogoutUser(p, tok, fam) ==
    /\ Takes(p)
    /\ Respond(p, LogoutReq(tok, fam),
               LogoutOutcome(FindActiveByFamily(refreshTokens, fam, now)), NoHist)
    /\ refreshTokens' \in LogoutEffect(refreshTokens, tok, fam, now)
    /\ UNCHANGED <<users, nextUuid, now, jar, log, gateVars, appVars, apiVars>>

(* POST /auth/logout-all runs behind authMiddleware: userId is the id of    *)
(* the verified access token, the id of some user.                           *)
LogoutAllDevices(p, userId) ==
    /\ Takes(p)
    /\ Respond(p, [NoReq EXCEPT !.op = "logoutAll", !.userId = userId], LogoutOk, NoHist)
    /\ refreshTokens' = RevokeAllForUser(refreshTokens, userId, now)
    /\ UNCHANGED <<users, nextUuid, now, jar, log, gateVars, appVars, apiVars>>

----------------------------------------------------------------------------
(* The environment.  Time is observed every half refresh lifetime, which     *)
(* tells a fresh record from one that outlived its predecessor and from an   *)
(* expired one.  The TTL index on expiresAt (expireAfterSeconds: 0) deletes  *)
(* the documents whose expiresAt has passed.                                 *)

Tick ==
    /\ now < MaxTime
    /\ now' = now + (REFRESH_TOKEN_EXPIRES_IN_DAYS + 1) \div 2
    /\ UNCHANGED <<users, refreshTokens, nextUuid, pc, req, doc, rot, hist, last,
                   jar, log, gateVars, appVars, apiVars>>

Expired(rts, t) == {r \in rts : r.expiresAt <= t}

TtlSweep ==
    /\ Expired(refreshTokens, now) # {}
    /\ refreshTokens' = refreshTokens \ Expired(refreshTokens, now)
    /\ UNCHANGED <<users, nextUuid, now, pc, req, doc, rot, hist, last, jar, log,
                   gateVars, appVars, apiVars>>

----------------------------------------------------------------------------
(* requireRole(...allowedRoles)(req, res, next) *)

(* what requireRole did: how often it called next(), what it sent with res *)
NoGateRes == [called |-> FALSE, nextCalls |-> 0, responses |-> <<>>]

(* a membership test that looks at the first role only *)
IncludesFirst(seq, x) == Len(seq) > 0 /\ seq[1] = x

(* allowedRoles.includes(role) *)
Includes(seq, x) == \E i \in 1..Len(seq) : seq[i] = x

(* user: <<>> when req.user is undefined, else <<payload>> *)
RequireRole(user, allowedRoles) ==
    IF user = <<>>
    THEN [called |-> TRUE, nextCalls |-> 0,
          responses |-> <<[status |-> 401,
                           message |-> "Authentication required before authorization check"]>>]
    ELSE IF ~Includes(allowedRoles, user[1].role)
    THEN [called |-> TRUE, nextCalls |-> 0,
          responses |-> <<[status |-> 403, message |-> "Access denied"]>>]  \* the message goes on to name the roles
    ELSE [called |-> TRUE, nextCalls |-> 1, responses |-> <<>>]

RECURSIVE SeqsUpTo(_, _)
SeqsUpTo(S, n) ==
    IF n = 0 THEN {<<>>}
    ELSE LET shorter == SeqsUpTo(S, n - 1) IN
         shorter \cup {Append(s, x) : s \in shorter, x \in S}

(* req.user as authMiddleware leaves it: absent, or the claims of a token    *)
(* signed for some user with the role the user had then                      *)
GateUsers ==
    {<<>>} \cup {<<[AccessPayload(u) EXCEPT !.role = r]>> : u \in SeedUsers, r \in Roles}

GateInputs == [user : GateUsers, allowedRoles : SeqsUpTo(Roles, MaxAllowed)]

RequireRoleCall ==
    /\ ~gateRes.called
    /\ gateRes' = RequireRole(gateReq.user, gateReq.allowedRoles)
    /\ UNCHANGED <<gateReq, sessionVars, apiVars, appVars>>

(* the next request reaches a route guarded by requireRole *)
GateRequest ==
    /\ gateRes.called
    /\ gateReq' \in GateInputs
    /\ gateRes' = NoGateRes
    /\ UNCHANGED <<sessionVars, apiVars, appVars>>

----------------------------------------------------------------------------
(* authMiddleware(req, res, next) *)

(* req.headers.authorization: the scheme before the first blank ("" when the *)
(* header is absent) and the token after it                                  *)
NoHeader == [scheme |-> "", token |-> MalformedToken]

MsgAuthRequired == "Authorization required. Provide Bearer token in Authorization header."
MsgServerConfig == "Server configuration error: authentication service unavailable"
MsgTokenExpired == "Token expired. Please login again."
MsgTokenFormat == "Invalid token format."

(* secretKey is process.env.JWT_SECRET, "" when it is not set.  The result:  *)
(* req.user as the call leaves it, how often it called next(), what it sent  *)
AuthMiddleware(authHeader, secretKey, t) ==
    IF authHeader.scheme # "Bearer"
    THEN [user |-> <<>>, nextCalls |-> 0,
          responses |-> <<[status |-> 401, message |-> MsgAuthRequired]>>]
    ELSE IF secretKey = ""
    THEN [user |-> <<>>, nextCalls |-> 0,
          responses |-> <<[status |-> 500, message |-> MsgServerConfig]>>]
    ELSE LET v == JwtVerify(authHeader.token, secretKey, t) IN
         IF v.error = ""
         THEN [user |-> v.decoded, nextCalls |-> 1, responses |-> <<>>]
         ELSE [user |-> <<>>, nextCalls |-> 0,
               responses |-> <<[status |-> 401,
                                message |-> IF v.error = "TokenExpiredError"
                                            THEN MsgTokenExpired
                                            ELSE MsgTokenFormat]>>]

(* The tokens a client can hold at time t: those signed for a user at time  *)
(* t or when the clock was last observed before, those signed at time t with *)
(* the role rewritten or signed with another key, and a string that is no    *)
(* token                                                                     *)
SignedTokens(us, t) ==
    {JwtSign(AccessPayload(u), iat) :
        u \in us,
        iat \in {i \in 1..t : i = t \/ i + (REFRESH_TOKEN_EXPIRES_IN_DAYS + 1) \div 2 = t}}

FreshTokens(us, t) == {JwtSign(AccessPayload(u), t) : u \in us}

RewrittenTokens(us, t) ==
    {[tk EXCEPT !.payload.role = "admin"] : tk \in FreshTokens(us, t)}
        \cup {[tk EXCEPT !.sig = Hmac("another key", tk.payload, tk.iat, tk.exp)] :
                 tk \in FreshTokens(us, t)}

AuthHeaders(us, t) ==
    {NoHeader}
        \cup [scheme : {"Bearer"},
              token : SignedTokens(us, t) \cup RewrittenTokens(us, t) \cup {MalformedToken}]
        \cup [scheme : {"bearer", "Basic"}, token : FreshTokens(us, t)]

----------------------------------------------------------------------------
(* registerUser and registerAdmin *)

MsgInvalidRegistration == "Invalid registration data"
MsgInvalidAdminRegistration == "Invalid admin registration data"
MsgUserRegistered == "User registered successfully"
MsgAdminRegistered == "Admin registered successfully"
MsgDuplicateUser == "Email already registered (duplicate key)"
MsgDuplicateAdmin == "Email already registered"

(* the passwords that meet the rules of RegisterUserSchema: six characters,  *)
(* an upper case letter, a digit, a special character, no blank              *)
StrongPassword(pw) == pw \in {"Secret1!", "Admin123!"}

(* RegisterUserSchema.safeParse(req.body).success *)
RegisterUserSchemaOk(body) ==
    body.name # "" /\ IsEmail(body.email) /\ StrongPassword(body.password)

RegisterBodies ==
    [name : {"Bea"}, email : {"new@x.com", "New@X.com", "a@x.com", "not-an-email"},
     password : {"Secret1!", "weak"}]

(* the document User.create is given: the parsed body, the password hashed *)
NewUser(us, body, role) ==
    [id |-> Cardinality(us) + 1, name |-> body.name, email |-> ToLowerCase(body.email),
     password |-> BcryptHash(body.password), role |-> role]

(* an insert into a collection without the unique index on email *)
CreateUserUnchecked(us, u) == [code |-> 0, users |-> us \cup {u}]

(* User.create(u): the insert, which the unique index on email rejects with  *)
(* code 11000 when a document holds that email                               *)
CreateUser(us, u) ==
    IF \E x \in us : x.email = u.email
    THEN [code |-> 11000, users |-> us]
    ELSE [code |-> 0, users |-> us \cup {u}]

(* the answer after User.create returned or threw *)
RegisterAnswer(created, role) ==
    IF created.code = 11000
    THEN [status |-> 409,
          message |-> IF role = "admin" THEN MsgDuplicateAdmin ELSE MsgDuplicateUser]
    ELSE [status |-> 201,
          message |-> IF role = "admin" THEN MsgAdminRegistered ELSE MsgUserRegistered]

RegisterInvalid(role) ==
    [status |-> 400,
     message |-> IF role = "admin" THEN MsgInvalidAdminRegistration
                 ELSE MsgInvalidRegistration]

----------------------------------------------------------------------------
(* bookControllers: addBook, updateBook, deleteBook *)

Isbns == {"123456789X", "9780000000002"}

Titles == {"Rayuela", "Ficciones"}

(* req.body of the book routes: whether it passes the schema of the route,   *)
(* and the fields it gives (<<>>: not given)                                 *)
NoBody == [valid |-> FALSE, isbn |-> <<>>, title |-> <<>>]

AddBookBodies ==
    {NoBody} \cup [valid : {TRUE}, isbn : {<<i>> : i \in Isbns}, title : {<<"Rayuela">>}]

UpdateBookBodies ==
    {NoBody, [valid |-> TRUE, isbn |-> <<>>, title |-> <<>>],
     [valid |-> TRUE, isbn |-> <<>>, title |-> <<"Ficciones">>],
     [valid |-> TRUE, isbn |-> <<"9780000000002">>, title |-> <<>>]}

(* mongoose.isValidObjectId(req.params.id) *)
IsValidObjectId(id) == id # 0

BookIds == 0..MaxBooks

(* Every ISBN the schemas accept is digits and "X": toUpperCase() and the    *)
(* uppercase option of the model leave it as it is.                          *)
AddBook(bs, body) ==
    IF ~body.valid
    THEN [books |-> bs, res |-> [status |-> 400, message |-> "Invalid book data"]]
    ELSE IF \E b \in bs : b.isbn = body.isbn[1]
    THEN [books |-> bs, res |-> [status |-> 409, message |-> "Book already exists"]]
    ELSE [books |-> bs \cup {[id |-> CHOOSE i \in 1..(MaxBooks + 1) :
                                         \A b \in bs : b.id # i,
                              isbn |-> body.isbn[1], title |-> body.title[1]]},
          res |-> [status |-> 201, message |-> "Book created successfully"]]

UpdateBook(bs, id, body) ==
    IF ~IsValidObjectId(id)
    THEN [books |-> bs, res |-> [status |-> 400, message |-> "Invalid book ID format"]]
    ELSE IF ~body.valid
    THEN [books |-> bs, res |-> [status |-> 400, message |-> "Invalid update data"]]
    ELSE IF body.isbn = <<>> /\ body.title = <<>>
    THEN [books |-> bs, res |-> [status |-> 400, message |-> "No data provided for update"]]
    ELSE IF body.isbn # <<>> /\ \E b \in bs : b.isbn = body.isbn[1] /\ b.id # id
    THEN [books |-> bs, res |-> [status |-> 409, message |-> "Another book already exists"]]
    ELSE IF ~\E b \in bs : b.id = id
    THEN [books |-> bs, res |-> [status |-> 404, message |-> "Book not found"]]
    ELSE [books |-> {IF b.id = id
                     THEN [b EXCEPT !.isbn = IF body.isbn # <<>> THEN body.isbn[1] ELSE @,
                                    !.title = IF body.title # <<>> THEN body.title[1] ELSE @]
                     ELSE b : b \in bs},
          res |-> [status |-> 200, message |-> "Book updated successfully"]]

DeleteBook(bs, id) ==
    IF ~IsValidObjectId(id)
    THEN [books |-> bs, res |-> [status |-> 400, message |-> "Invalid book ID format"]]
    ELSE IF ~\E b \in bs : b.id = id
    THEN [books |-> bs, res |-> [status |-> 404, message |-> "Book not found"]]
    ELSE [books |-> {b \in bs : b.id # id},
          res |-> [status |-> 200, message |-> "deleted successfully"]]

----------------------------------------------------------------------------
(* The guarded routes: authMiddleware, requireRole("admin"), the handler *)

Routes == {"POST /books", "PATCH /books/:id", "DELETE /books/:id", "POST /auth/admin"}

AdminBody == [name |-> "Bea", email |-> "new@x.com", password |-> "Secret1!"]

NoRegBody == [name |-> "", email |-> "", password |-> ""]

(* stage: the function of the route's chain that runs next; trail: those     *)
(* that have run; res: the responses sent                                    *)
NoHttp ==
    [route |-> "", header |-> NoHeader, id |-> 0, body |-> NoBody, reg |-> NoRegBody,
     stage |-> "idle", user |-> <<>>, trail |-> <<>>, res |-> <<>>]

HttpRequests(us, t) ==
    [route : {"POST /books"}, header : AuthHeaders(us, t), id : {0},
     body : AddBookBodies, reg : {NoRegBody}]
    \cup [route : {"PATCH /books/:id"}, header : AuthHeaders(us, t), id : BookIds,
          body : UpdateBookBodies, reg : {NoRegBody}]
    \cup [route : {"DELETE /books/:id"}, header : AuthHeaders(us, t), id : BookIds,
          body : {NoBody}, reg : {NoRegBody}]
    \cup [route : {"POST /auth/admin"}, header : AuthHeaders(us, t), id : {0},
          body : {NoBody}, reg : {AdminBody, [AdminBody EXCEPT !.password = "weak"]}]

(* a request reaches one of the guarded routes *)
HttpRequest ==
    /\ http.stage = "idle"
    /\ \E r \in HttpRequests(users, now) :
         http' = [route |-> r.route, header |-> r.header, id |-> r.id, body |-> r.body,
                  reg |-> r.reg, stage |-> "authMiddleware", user |-> <<>>,
                  trail |-> <<>>, res |-> <<>>]
    /\ UNCHANGED <<sessionVars, gateVars, appVars, books, errCall, regCall, regLog>>

HttpAuthMiddleware ==
    /\ http.stage = "authMiddleware"
    /\ LET r == AuthMiddleware(http.header, JwtSecret, now) IN
       http' = [http EXCEPT !.user = r.user,
                            !.trail = Append(@, "authMiddleware"),
                            !.res = r.responses,
                            !.stage = IF r.nextCalls = 1 THEN "requireRole" ELSE "done"]
    /\ UNCHANGED <<sessionVars, gateVars, appVars, books, errCall, regCall, regLog>>

HttpRequireRole ==
    /\ http.stage = "requireRole"
    /\ LET r == RequireRole(http.user, <<"admin">>) IN
       http' = [http EXCEPT !.trail = Append(@, "requireRole"),
                            !.res = r.responses,
                            !.stage = IF r.nextCalls = 1 THEN "handler" ELSE "done"]
    /\ UNCHANGED <<sessionVars, gateVars, appVars, books, errCall, regCall, regLog>>

(* the response has been sent: the request is over *)
HttpClose ==
    /\ http.stage = "done"
    /\ http' = NoHttp
    /\ UNCHANGED <<sessionVars, gateVars, appVars, books, errCall, regCall, regLog>>

(* addBook, updateBook, deleteBook or registerAdmin, by the route *)
HttpHandler ==
    /\ http.stage = "handler"
    /\ IF http.route = "POST /auth/admin"
       THEN LET created == CreateUser(users, NewUser(users, http.reg, "admin")) IN
            /\ users' = IF RegisterUserSchemaOk(http.reg) THEN created.users ELSE users
            /\ http' = [http EXCEPT !.trail = Append(@, "registerAdmin"),
                                    !.stage = "done",
                                    !.res = <<IF RegisterUserSchemaOk(http.reg)
                                              THEN RegisterAnswer(created, "admin")
                                              ELSE RegisterInvalid("admin")>>]
            /\ UNCHANGED books
       ELSE LET out == IF http.route = "POST /books" THEN AddBook(books, http.body)
                       ELSE IF http.route = "PATCH /books/:id"
                       THEN UpdateBook(books, http.id, http.body)
                       ELSE DeleteBook(books, http.id)
                name == IF http.route = "POST /books" THEN "addBook"
                        ELSE IF http.route = "PATCH /books/:id" THEN "updateBook"
                        ELSE "deleteBook"
            IN
            /\ Cardinality(out.books) <= MaxBooks
            /\ books' = out.books
            /\ http' = [http EXCEPT !.trail = Append(@, name), !.stage = "done",
                                    !.res = <<out.res>>]
            /\ UNCHANGED users
    /\ UNCHANGED <<refreshTokens, nextUuid, now, pc, req, doc, rot, hist, last, jar, log,
                   gateVars, appVars, errCall, regCall, regLog>>

----------------------------------------------------------------------------
(* registerUser, and registerAdmin once the request has passed the guards:   *)
(* the steps up to the await of bcryptjs.hash, then User.create and the      *)
(* answer                                                                    *)

NoReg == [role |-> "", body |-> NoRegBody]

RegisterBegin(p, role, body) ==
    /\ regCall[p] = NoReg
    /\ Len(regLog) + Cardinality({q \in Procs : regCall[q] # NoReg}) < MaxRegs
    /\ IF RegisterUserSchemaOk(body)
       THEN /\ regCall' = [regCall EXCEPT ![p] = [role |-> role, body |-> body]]
            /\ UNCHANGED regLog
       ELSE /\ regLog' = Append(regLog, <<ToLowerCase(body.email), RegisterInvalid(role).status>>)
            /\ UNCHANGED regCall
    /\ UNCHANGED <<sessionVars, gateVars, appVars, books, http, errCall>>

RegisterCreate(p) ==
    /\ regCall[p] # NoReg
    /\ LET c == regCall[p]
           created == CreateUser(users, NewUser(users, c.body, c.role))
       IN
       /\ users' = created.users
       /\ regLog' = Append(regLog, <<ToLowerCase(c.body.email),
                                     RegisterAnswer(created, c.role).status>>)
    /\ regCall' = [regCall EXCEPT ![p] = NoReg]
    /\ UNCHANGED <<refreshTokens, nextUuid, now, pc, req, doc, rot, hist, last, jar, log,
                   gateVars, appVars, books, http, errCall>>

----------------------------------------------------------------------------
(* handleErrors(error, _req, res, _next) *)

MsgInternal == "Internal server error"

(* a handler that returns every message as it is *)
SanitizeMessageNever(message, statusCode) == message

(* sanitizeMessage(message, statusCode) *)
SanitizeMessage(message, statusCode) ==
    IF statusCode >= 400 /\ statusCode < 500 THEN message ELSE MsgUnexpected

(* error.status and error.statusCode: <<>> when not a number, else <<n>>;    *)
(* nodeEnv: process.env.NODE_ENV                                             *)
HandleErrors(error, nodeEnv) ==
    LET statusCode == IF error.status # <<>> THEN error.status[1]
                      ELSE IF error.statusCode # <<>> THEN error.statusCode[1]
                      ELSE 500
        isDevelopment == nodeEnv = "development"
        message == IF error.message # "" THEN error.message ELSE MsgInternal
    IN
    [status |-> statusCode,
     message |-> IF isDevelopment THEN message ELSE SanitizeMessage(message, statusCode),
     errorCode |-> statusCode]

ErrorStatuses == {<<>>, <<400>>, <<404>>, <<500>>, <<503>>}

ErrorMessages == {"", "Book not found", "connect ECONNREFUSED 127.0.0.1:27017"}

Errors == [status : ErrorStatuses, statusCode : ErrorStatuses, message : ErrorMessages]

NodeEnvs == {"development", "production", ""}

NoErrorResult == [status |-> 0, message |-> "", errorCode |-> 0]

NoErrCall ==
    [error |-> [status |-> <<>>, statusCode |-> <<>>, message |-> ""],
     nodeEnv |-> "", called |-> FALSE, res |-> NoErrorResult]

(* next(error) in a handler: the error reaches handleErrors *)
ErrorReaches ==
    /\ errCall.called
    /\ \E e \in Errors : errCall' = [errCall EXCEPT !.error = e, !.called = FALSE,
                                                    !.res = NoErrorResult]
    /\ UNCHANGED <<sessionVars, gateVars, appVars, books, http, regCall, regLog>>

HandleErrorsCall ==
    /\ ~errCall.called
    /\ errCall' = [errCall EXCEPT !.called = TRUE,
                                  !.res = HandleErrors(errCall.error, errCall.nodeEnv)]
    /\ UNCHANGED <<sessionVars, gateVars, appVars, books, http, regCall, regLog>>

----------------------------------------------------------------------------
(* The frontend: api/client (httpClient), api/auth and AuthProvider.  The    *)
(* page runs one thread: what lies between two awaits is one step.  The      *)
(* server is whatever answers: any status for a request, a new access token  *)
(* or a refusal for POST /auth/refresh.                                      *)

HttpCalls == 1..MaxCalls

(* let accessToken: string | null = null *)
NullToken == 0

(* useState<User | null>(null) *)
NoClientUser == 0

Endpoints == {"/books", "/auth/login", "/auth/logout"}

(* response.status: a 2xx, 401, or another error *)
Statuses == {200, 401, 500}

IdleCall ==
    [pc |-> "idle", endpoint |-> "", bearer |-> NullToken, round |-> 0,
     releasedBy |-> 0]

(* positions at which the promise httpClient returned is no longer pending *)
Settled == {"idle", "resolved", "rejected"}

(* a client that starts a refresh on every 401 *)
StartsRefreshAlways(status, token, refreshing) == status = 401 /\ token # NullToken

(* response.status === 401 && accessToken, then !isRefreshing *)
StartsRefresh(status, token, refreshing) ==
    status = 401 /\ token # NullToken /\ ~refreshing

(* response.status === 401 && accessToken, with a refresh in progress *)
JoinsQueue(status, token, refreshing) ==
    status = 401 /\ token # NullToken /\ refreshing

(* What the caller of httpClient does when the promise settles.  api/auth    *)
(* login: setAccessToken(response.token), AuthProvider: setUser(userData),   *)
(* finally setIsLoading(false).  api/auth logout: finally                    *)
(* clearAccessToken(), AuthProvider: setUser(null) only when logoutApi did   *)
(* not throw, finally setIsLoading(false).                                   *)
Continuation(endpoint, ok, token, usr, loading, newToken) ==
    IF endpoint = "/auth/login"
    THEN [accessToken |-> IF ok THEN newToken ELSE token,
          user |-> IF ok THEN 1 ELSE usr, isLoading |-> FALSE]
    ELSE IF endpoint = "/auth/logout"
    THEN [accessToken |-> NullToken,
          user |-> IF ok THEN NoClientUser ELSE usr, isLoading |-> FALSE]
    ELSE [accessToken |-> token, user |-> usr, isLoading |-> loading]

(* The promise of call c settles, ok or not, with token the access token     *)
(* held at that moment; the login answer carries a new access token.  Of a   *)
(* settled call only the outcome is kept.                                    *)
Settle(c, ok, token) ==
    LET gives == ok /\ call[c].endpoint = "/auth/login"
        k == Continuation(call[c].endpoint, ok, token, clientUser, isLoading, issued + 1)
    IN /\ gives => issued < MaxTokens
       /\ issued' = IF gives THEN issued + 1 ELSE issued
       /\ accessToken' = k.accessToken
       /\ clientUser' = k.user
       /\ isLoading' = k.isLoading
       /\ call' = [call EXCEPT ![c] =
                       [IdleCall EXCEPT !.pc = IF ok THEN "resolved" ELSE "rejected"]]

(* httpClient(endpoint, options) up to the first fetch; login and logout of  *)
(* AuthProvider first setIsLoading(true)                                     *)
HttpClientCall(c, endpoint) ==
    /\ call[c].pc \in Settled
    /\ call' = [call EXCEPT ![c] = [IdleCall EXCEPT !.pc = "fetch",
                                                   !.endpoint = endpoint,
                                                   !.bearer = accessToken]]
    /\ isLoading' = IF endpoint = "/books" THEN isLoading ELSE TRUE
    /\ UNCHANGED <<accessToken, isRefreshing, refreshSubscribers, clientUser, rounds,
                   issued>>
    /\ UNCHANGED <<sessionVars, gateVars, apiVars, connVars, boot, items>>

(* The first fetch returns.  On 401 with a token held the call starts the    *)
(* refresh, or, with one in progress, queues its callback and waits.         *)
FetchReturns(c, status) ==
    /\ call[c].pc = "fetch"
    /\ IF StartsRefresh(status, accessToken, isRefreshing)
       THEN /\ Len(rounds) < MaxRounds
            /\ isRefreshing' = TRUE
            /\ rounds' = Append(rounds, "pending")
            /\ call' = [call EXCEPT ![c].pc = "refresh", ![c].round = Len(rounds) + 1]
            /\ UNCHANGED <<accessToken, refreshSubscribers, clientUser, isLoading, issued>>
       ELSE IF JoinsQueue(status, accessToken, isRefreshing)
       THEN /\ refreshSubscribers' = Append(refreshSubscribers, c)
            /\ call' = [call EXCEPT ![c].pc = "wait", ![c].round = Len(rounds)]
            /\ UNCHANGED <<accessToken, isRefreshing, clientUser, isLoading, rounds,
                           issued>>
       ELSE /\ Settle(c, status = 200, accessToken)
            /\ UNCHANGED <<isRefreshing, refreshSubscribers, rounds>>
    /\ UNCHANGED <<sessionVars, gateVars, apiVars, connVars, boot, items>>

(* the requests whose callbacks are queued *)
Subscribed == {refreshSubscribers[i] : i \in 1..Len(refreshSubscribers)}

(* POST /auth/refresh returns to call c, which started it.  ok:              *)
(* setAccessToken, onTokenRefreshed (every queued callback resolves its      *)
(* promise, the queue is emptied), finally isRefreshing = false, and then    *)
(* the call itself queues a callback and waits.  Not ok: clearAccessToken,   *)
(* finally isRefreshing = false, and the call rejects.                       *)
RefreshReturns(c, ok) ==
    /\ call[c].pc = "refresh"
    /\ isRefreshing' = FALSE
    /\ IF ok
       THEN /\ issued < MaxTokens
            /\ issued' = issued + 1
            /\ accessToken' = issued + 1
            /\ call' = [k \in HttpCalls |->
                          IF k = c THEN [call[k] EXCEPT !.pc = "wait"]
                          ELSE IF k \in Subscribed
                          THEN [call[k] EXCEPT !.pc = "retry", !.bearer = issued + 1,
                                               !.releasedBy = call[c].round]
                          ELSE call[k]]
            /\ refreshSubscribers' = <<c>>
            /\ rounds' = [rounds EXCEPT ![call[c].round] = "ok"]
            /\ UNCHANGED <<clientUser, isLoading>>
       ELSE /\ Settle(c, FALSE, NullToken)
            /\ rounds' = [rounds EXCEPT ![call[c].round] = "failed"]
            /\ UNCHANGED refreshSubscribers
    /\ UNCHANGED <<sessionVars, gateVars, apiVars, connVars, boot, items>>

(* The retry: fetch with the new token, and its answer, whatever it is,      *)
(* settles the call.                                                         *)
RetryReturns(c, status) ==
    /\ call[c].pc = "retry"
    /\ Settle(c, status = 200, accessToken)
    /\ UNCHANGED <<isRefreshing, refreshSubscribers, rounds>>
    /\ UNCHANGED <<sessionVars, gateVars, apiVars, connVars, boot, items>>

----------------------------------------------------------------------------
(* config/mongoDB: connectMongoDB.  Caller 0 is startServer; the others are  *)
(* calls made while the process runs.                                        *)

Callers == 0..MaxCallers

MsgMongoUriRequired == "MONGO_URI environment variable is required"
MsgUsingExisting == "Using existing connection"
MsgConnected == "MongoDB connected successfully"
MsgConnectionFailed == "MongoDB connection failed"

NoConn == [pc |-> "idle", message |-> ""]

(* what mongoose.connect can come to: connected with readyState 1,           *)
(* resolved with another readyState, rejected                                *)
ConnectOutcomes == {"ready", "notReady", "rejected"}

(* connectMongoDB up to await mongoose.connect: the MONGO_URI test, the      *)
(* isConnected test, the call of mongoose.connect                            *)
ConnectCall(k) ==
    /\ conn[k].pc # "connecting"
    /\ k = 0 => (boot.pc = "connect" /\ conn[0].pc = "idle")
    /\ IF processEnv.MONGO_URI = ""
       THEN /\ conn' = [conn EXCEPT ![k] = [pc |-> "threw", message |-> MsgMongoUriRequired]]
            /\ UNCHANGED opened
       ELSE IF isConnected
       THEN /\ conn' = [conn EXCEPT ![k] = [pc |-> "returned", message |-> MsgUsingExisting]]
            /\ UNCHANGED opened
       ELSE /\ opened < MaxOpened
            /\ opened' = opened + 1
            /\ conn' = [conn EXCEPT ![k] = [pc |-> "connecting", message |-> ""]]
    /\ UNCHANGED <<isConnected, troubled, connection, processEnv, boot>>
    /\ UNCHANGED <<sessionVars, gateVars, apiVars, clientVars, items>>

(* mongoose.connect settles: the readyState test, isConnected = true and the *)
(* two listeners, or the catch: isConnected = false and the error            *)
ConnectSettles(k, outcome) ==
    /\ conn[k].pc = "connecting"
    /\ IF outcome = "ready"
       THEN /\ isConnected' = TRUE
            /\ connection' = [readyState |-> 1, listeners |-> connection.listeners + 1]
            /\ conn' = [conn EXCEPT ![k] = [pc |-> "returned", message |-> MsgConnected]]
            /\ UNCHANGED troubled
       ELSE /\ isConnected' = FALSE
            /\ troubled' = TRUE
            /\ conn' = [conn EXCEPT ![k] = [pc |-> "threw", message |-> MsgConnectionFailed]]
            /\ UNCHANGED connection
    /\ UNCHANGED <<opened, processEnv, boot>>
    /\ UNCHANGED <<sessionVars, gateVars, apiVars, clientVars, items>>

(* connection.on('disconnected') *)
Disconnected ==
    /\ connection.readyState = 1
    /\ boot.pc # "exit"
    /\ connection' = [connection EXCEPT !.readyState = 0]
    /\ isConnected' = IF connection.listeners > 0 THEN FALSE ELSE isConnected
    /\ troubled' = TRUE
    /\ UNCHANGED <<conn, opened, processEnv, boot>>
    /\ UNCHANGED <<sessionVars, gateVars, apiVars, clientVars, items>>

(* connection.on('reconnected') *)
Reconnected ==
    /\ connection.readyState = 0 /\ connection.listeners > 0
    /\ boot.pc # "exit"
    /\ connection' = [connection EXCEPT !.readyState = 1]
    /\ isConnected' = TRUE
    /\ UNCHANGED <<conn, opened, troubled, processEnv, boot>>
    /\ UNCHANGED <<sessionVars, gateVars, apiVars, clientVars, items>>

----------------------------------------------------------------------------
(* server.ts startServer and main.ts main *)

JwtSecrets == {"", "short", "a-secret-of-32-characters-or-more"}
MongoUris == {"", "mongodb://localhost:27017/mydb"}
Ports == {"", "8080", "abc", "0", "-5", "70000"}

ProcessEnvs ==
    [JWT_SECRET : JwtSecrets, MONGODB_URI : MongoUris, MONGO_URI : MongoUris,
     PORT : Ports]

(* the environment of a process that runs *)
RunningEnv ==
    [JWT_SECRET |-> "a-secret-of-32-characters-or-more",
     MONGODB_URI |-> "mongodb://localhost:27017/mydb",
     MONGO_URI |-> "mongodb://localhost:27017/mydb", PORT |-> "8080"]

(* Number(portEnv) || 3000 *)
PortOf(portEnv) ==
    IF portEnv = "8080" THEN 8080
    ELSE IF portEnv = "70000" THEN 70000
    ELSE IF portEnv = "-5" THEN 0 - 5
    ELSE 3000

(* a validation that lets every environment pass *)
ValidConfigAlways(e) == TRUE

(* the tests of startServer before it starts a service: JWT_SECRET,          *)
(* MONGODB_URI, PORT                                                         *)
ValidConfig(e) ==
    /\ e.JWT_SECRET # ""
    /\ e.MONGODB_URI # ""
    /\ ~(e.PORT # "" /\ (PortOf(e.PORT) < 1 \/ PortOf(e.PORT) > 65535))

BootOff == [pc |-> "off", listening |-> FALSE, exitCode |-> 0, reported |-> FALSE]

BootStart == [BootOff EXCEPT !.pc = "start"]

(* process.exit(1) in the catch of main *)
Exit1 == [boot EXCEPT !.pc = "exit", !.exitCode = 1]

(* startServer up to await connectMongoDB() *)
StartServerValidate ==
    /\ boot.pc = "start"
    /\ boot' = IF ValidConfig(processEnv) THEN [boot EXCEPT !.pc = "connect"] ELSE Exit1
    /\ UNCHANGED <<isConnected, conn, opened, troubled, connection, processEnv>>
    /\ UNCHANGED <<sessionVars, gateVars, apiVars, clientVars, items>>

(* connectMongoDB threw: startServer rejects and main exits *)
StartServerConnectFails ==
    /\ boot.pc = "connect" /\ conn[0].pc = "threw"
    /\ boot' = Exit1
    /\ UNCHANGED <<isConnected, conn, opened, troubled, connection, processEnv>>
    /\ UNCHANGED <<sessionVars, gateVars, apiVars, clientVars, items>>

(* connectMongoDB returned: app.listen(PORT, callback); the callback runs,   *)
(* or the server emits 'error', startServer rejects and main exits           *)
StartServerListen(ok) ==
    /\ boot.pc = "connect" /\ conn[0].pc = "returned"
    /\ boot' = IF ok THEN [boot EXCEPT !.pc = "listening", !.listening = TRUE] ELSE Exit1
    /\ UNCHANGED <<isConnected, conn, opened, troubled, connection, processEnv>>
    /\ UNCHANGED <<sessionVars, gateVars, apiVars, clientVars, items>>

(* startServer resolved: console.log("Application started successfully") *)
MainReports ==
    /\ boot.pc = "listening"
    /\ boot' = [boot EXCEPT !.pc = "started", !.reported = TRUE]
    /\ UNCHANGED <<isConnected, conn, opened, troubled, connection, processEnv>>
    /\ UNCHANGED <<sessionVars, gateVars, apiVars, clientVars, items>>

----------------------------------------------------------------------------
(* contexts/CartProvider.  Each call hands setItems an updater; React runs   *)
(* the updaters one after another, each on the items the one before left.    *)

(* stock?: number, when the book has none *)
NoStock == 0 - 1

(* the number NaN, which a quantity: number can be; it stands outside the    *)
(* quantities counted here and is compared by JsLess and JsGeq                *)
NaN == 99

(* a < b and a >= b of JavaScript numbers: false when either is NaN *)
JsLess(a, b) == a # NaN /\ b # NaN /\ a < b

JsGeq(a, b) == a # NaN /\ b # NaN /\ a >= b

JsPlus(a, b) == IF a = NaN \/ b = NaN THEN NaN ELSE a + b

(* book.stock as a condition: undefined and 0 are falsy *)
Truthy(stock) == stock # NoStock /\ stock # 0

CartBookIds == {"b1", "b2"}

CartBooks == [_id : CartBookIds, stock : {NoStock, 0, 1, 2}]

Quantities == (0 - 1)..MaxQuantity \cup {NaN}

(* the positions of the items of book bookId *)
ItemsOf(current, bookId) == {i \in 1..Len(current) : current[i].book._id = bookId}

(* the updater of addToCart(book) *)
AddToCart(current, book) ==
    IF ItemsOf(current, book._id) # {}
    THEN LET existing == current[CHOOSE i \in ItemsOf(current, book._id) :
                                    \A j \in ItemsOf(current, book._id) : i <= j]
         IN IF Truthy(book.stock) /\ JsGeq(existing.quantity, book.stock)
            THEN current
            ELSE [i \in 1..Len(current) |->
                     IF current[i].book._id = book._id
                     THEN [current[i] EXCEPT !.quantity = JsPlus(@, 1)] ELSE current[i]]
    ELSE Append(current, [book |-> book, quantity |-> 1])

(* the updater of removeFromCart(bookId) *)
RemoveFromCart(current, bookId) ==
    SelectSeq(current, LAMBDA item : item.book._id # bookId)

(* updateQuantity(bookId, quantity): removeFromCart when quantity < 1, else  *)
(* the updater that sets the quantity                                        *)
UpdateQuantity(current, bookId, quantity) ==
    IF JsLess(quantity, 1)
    THEN RemoveFromCart(current, bookId)
    ELSE [i \in 1..Len(current) |->
             IF current[i].book._id = bookId
             THEN [current[i] EXCEPT !.quantity = quantity] ELSE current[i]]

(* the quantities stay within what is counted here *)
Counted(current) ==
    \A i \in 1..Len(current) : current[i].quantity \in 1..MaxQuantity \cup {NaN}

AddToCartCall(book) ==
    /\ Counted(AddToCart(items, book))
    /\ items' = AddToCart(items, book)
    /\ UNCHANGED <<sessionVars, gateVars, apiVars, clientVars, connVars, boot>>

RemoveFromCartCall(bookId) ==
    /\ items' = RemoveFromCart(items, bookId)
    /\ UNCHANGED <<sessionVars, gateVars, apiVars, clientVars, connVars, boot>>

UpdateQuantityCall(bookId, quantity) ==
    /\ items' = UpdateQuantity(items, bookId, quantity)
    /\ UNCHANGED <<sessionVars, gateVars, apiVars, clientVars, connVars, boot>>

ClearCartCall ==
    /\ items' = <<>>
    /\ UNCHANGED <<sessionVars, gateVars, apiVars, clientVars, connVars, boot>>

----------------------------------------------------------------------------
(* Specifications *)

SessionInit ==
    /\ users = SeedUsers
    /\ refreshTokens = {}
    /\ nextUuid = 1
    /\ now = 1
    /\ pc = [p \in Procs |-> "idle"]
    /\ req = [p \in Procs |-> NoReq]
    /\ doc = [p \in Procs |-> NoDoc]
    /\ rot = [p \in Procs |-> NoRot]
    /\ hist = [p \in Procs |-> NoHist]
    /\ last = NoCall
    /\ jar = {}
    /\ log = {}

GateIdle ==
    /\ gateReq = [user |-> <<>>, allowedRoles |-> <<>>]
    /\ gateRes = NoGateRes

ApiIdle ==
    /\ books = {}
    /\ http = NoHttp
    /\ errCall = NoErrCall
    /\ regCall = [p \in Procs |-> NoReg]
    /\ regLog = <<>>

ClientIdle ==
    /\ accessToken = NullToken
    /\ isRefreshing = FALSE
    /\ refreshSubscribers = <<>>
    /\ call = [c \in HttpCalls |-> IdleCall]
    /\ clientUser = NoClientUser
    /\ isLoading = FALSE
    /\ rounds = <<>>
    /\ issued = 0

ConnIdle ==
    /\ isConnected = FALSE
    /\ conn = [k \in Callers |-> NoConn]
    /\ opened = 0
    /\ troubled = FALSE
    /\ connection = [readyState |-> 0, listeners |-> 0]
    /\ processEnv = RunningEnv

BootIdle == boot = BootOff

CartIdle == items = <<>>

AppIdle == ClientIdle /\ ConnIdle /\ BootIdle /\ CartIdle

Init == SessionInit /\ GateIdle /\ ApiIdle /\ AppIdle

(* The logins of the session runs: each user's own credentials, and one     *)
(* wrong password                                                            *)
SessionLogins ==
    {<<"a@x.com", "Secret1!">>, <<"admin@x.com", "Admin123!">>, <<"a@x.com", "wrong">>}

Next ==
    \/ \E p \in Procs, c \in SessionLogins : LoginUser(p, c[1], c[2])
    \/ \E p \in Procs, c \in CookieInputs : RefreshLookup(p, c[1], c[2])
    \/ \E p \in Procs : RefreshSave(p)
    \/ \E p \in Procs : RefreshCreate(p)
    \/ \E p \in Procs, c \in CookieInputs : LogoutUser(p, c[1], c[2])
    \/ \E p \in Procs, u \in users : LogoutAllDevices(p, u.id)
    \/ Tick
    \/ TtlSweep

Spec == Init /\ [][Next]_vars

(* loginUser alone, over every email and password *)
NextLogin == \E p \in Procs, e \in Emails, pw \in Passwords : LoginUser(p, e, pw)

SpecLogin == Init /\ [][NextLogin]_vars

(* requireRole alone, over every request and every role list *)
InitGate ==
    /\ SessionInit
    /\ ApiIdle
    /\ AppIdle
    /\ gateReq \in GateInputs
    /\ gateRes = NoGateRes

NextGate == RequireRoleCall \/ GateRequest

SpecGate == InitGate /\ [][NextGate]_vars

(* the guarded routes alone, as time passes *)
NextAdmin ==
    HttpRequest \/ HttpAuthMiddleware \/ HttpRequireRole \/ HttpHandler \/ HttpClose \/ Tick

SpecAdmin == Init /\ [][NextAdmin]_vars

(* the register handlers alone, over every body and both roles *)
NextRegister ==
    \/ \E p \in Procs, role \in Roles, body \in RegisterBodies : RegisterBegin(p, role, body)
    \/ \E p \in Procs : RegisterCreate(p)

SpecRegister == Init /\ [][NextRegister]_vars

(* handleErrors alone, over every error, in each NODE_ENV *)
InitErrors ==
    /\ SessionInit
    /\ GateIdle
    /\ AppIdle
    /\ books = {}
    /\ http = NoHttp
    /\ regCall = [p \in Procs |-> NoReg]
    /\ regLog = <<>>
    /\ \E e \in Errors, env \in NodeEnvs :
          errCall = [error |-> e, nodeEnv |-> env, called |-> FALSE, res |-> NoErrorResult]

NextErrors == ErrorReaches \/ HandleErrorsCall

SpecErrors == InitErrors /\ [][NextErrors]_vars

(* the frontend alone: httpClient calls that overlap, any endpoint, any      *)
(* answer                                                                    *)
NextClient ==
    \/ \E c \in HttpCalls, e \in Endpoints : HttpClientCall(c, e)
    \/ \E c \in HttpCalls, st \in Statuses : FetchReturns(c, st)
    \/ \E c \in HttpCalls, ok \in BOOLEAN : RefreshReturns(c, ok)
    \/ \E c \in HttpCalls, st \in Statuses : RetryReturns(c, st)

SpecClient == Init /\ [][NextClient]_vars

(* Every request the page sends is answered: a fetch in flight returns.      *)
FairClient ==
    \A c \in HttpCalls :
        /\ WF_vars(\E st \in Statuses : FetchReturns(c, st))
        /\ WF_vars(\E ok \in BOOLEAN : RefreshReturns(c, ok))
        /\ WF_vars(\E st \in Statuses : RetryReturns(c, st))

SpecClientFair == Init /\ [][NextClient]_vars /\ FairClient

(* connectMongoDB alone: calls that overlap, with MONGO_URI set or not *)
InitConnect ==
    /\ SessionInit /\ GateIdle /\ ApiIdle /\ ClientIdle /\ BootIdle /\ CartIdle
    /\ isConnected = FALSE
    /\ conn = [k \in Callers |-> NoConn]
    /\ opened = 0
    /\ troubled = FALSE
    /\ connection = [readyState |-> 0, listeners |-> 0]
    /\ processEnv \in {RunningEnv, [RunningEnv EXCEPT !.MONGO_URI = ""]}

NextConnect ==
    \/ \E k \in Callers \ {0} : ConnectCall(k)
    \/ \E k \in Callers \ {0}, o \in ConnectOutcomes : ConnectSettles(k, o)
    \/ Disconnected
    \/ Reconnected

SpecConnect == InitConnect /\ [][NextConnect]_vars

(* the start of the process, in every environment *)
InitBoot ==
    /\ SessionInit /\ GateIdle /\ ApiIdle /\ ClientIdle /\ CartIdle
    /\ isConnected = FALSE
    /\ conn = [k \in Callers |-> NoConn]
    /\ opened = 0
    /\ troubled = FALSE
    /\ connection = [readyState |-> 0, listeners |-> 0]
    /\ processEnv \in ProcessEnvs
    /\ boot = BootStart

NextBoot ==
    \/ StartServerValidate
    \/ ConnectCall(0)
    \/ \E o \in ConnectOutcomes : ConnectSettles(0, o)
    \/ StartServerConnectFails
    \/ \E ok \in BOOLEAN : StartServerListen(ok)
    \/ MainReports
    \/ Disconnected
    \/ Reconnected

SpecBoot == InitBoot /\ [][NextBoot]_vars

(* the cart alone, from an empty cart *)
NextCart ==
    \/ \E book \in CartBooks : AddToCartCall(book)
    \/ \E bookId \in CartBookIds : RemoveFromCartCall(bookId)
    \/ \E bookId \in CartBookIds, quantity \in Quantities :
           UpdateQuantityCall(bookId, quantity)
    \/ ClearCartCall

SpecCart == Init /\ [][NextCart]_vars

----------------------------------------------------------------------------
(* Properties *)

(* The records of a family that are live: not replaced, not revoked, not    *)
(* expired                                                                   *)
Live(rts, family, t) ==
    {r \in rts : /\ r.tokenFamily = family /\ r.replacedByTokenHash = NullHash
                 /\ r.revokedAt = NullDate /\ r.expiresAt > t}

RefusedWith(messages) ==
    /\ last.res.status = 401
    /\ last.res.cookies = <<>>
    /\ last.res.token = <<>>
    /\ last.res.message \in messages

C2_OneRotationPerToken ==
    \A l1 \in log, l2 \in log : (l1.tok = l2.tok /\ l1.fam = l2.fam) => l1 = l2

(* C3: in every state each family has at most one live record. *)
C3_OneLivePerFamily ==
    \A r \in refreshTokens : Cardinality(Live(refreshTokens, r.tokenFamily, now)) <= 1

(* C4: a Refresh that presents, with no other call in flight, the unreplaced *)
(* token of a family none of whose records is revoked or expired is not      *)
(* refused.                                                                  *)
C4_CurrentTokenAccepted ==
    (last.req.op = "refresh" /\ last.hist.chain) => last.res.status # 401

(* C5: a Login whose body passes LoginUserSchema and that does not succeed   *)
(* is answered the same way whether the email is unknown or the password is  *)
(* wrong: 401 "Invalid credentials", no cookies, no token; and a Login that  *)
(* does not succeed changes neither the users nor the refreshTokens          *)
(* collection.                                                               *)
C5_LoginRevealsNothing ==
    /\ [](\A e \in Emails, pw \in Passwords :
            LET out == LoginOutcome(users, e, pw) IN
            (LoginUserSchemaOk(e, pw) /\ out.status # 200)
                => out = Fail(401, MsgInvalidCredentials))
    /\ []((last.req.op = "login" /\ last.res.status # 200
           /\ LoginUserSchemaOk(last.req.email, last.req.password))
            => last.res = Fail(401, MsgInvalidCredentials))
    /\ [][\A p \in Procs, e \in Emails, pw \in Passwords :
            (LoginUser(p, e, pw) /\ last'.res.status # 200)
                => UNCHANGED <<users, refreshTokens>>]_vars

C5_WrongPasswordAndUnknownEmail ==
    /\ last.req.op = "login"
    /\ last.req.email = "nobody@x.com"
    /\ FindUserByEmail(users, ToLowerCase(last.req.email)) = {}
    /\ last.res = Fail(401, MsgInvalidCredentials)
    /\ last.res = LoginOutcome(users, "a@x.com", "wrong")
    /\ refreshTokens # {}

(* C6: a Refresh succeeds only if, when the call looked the family up, the   *)
(* record of the token it presents was neither revoked nor expired.          *)
C6_OnlyActiveAuthorizes ==
    (last.req.op = "refresh" /\ last.res.status = 200) => last.hist.active

C6_InactiveRefused ==
    /\ last.req.op = "refresh"
    /\ last.hist.stored /\ ~last.hist.active
    /\ last.res = Fail(401, MsgInvalidOrExpired)

(* C7, as stated: after a Refresh answered "Token reuse detected" every      *)
(* record of the family has revokedAt set.                                   *)
C7_ReuseRevokesFamily ==
    [][\A p \in Procs, c \in CookieInputs :
         (last'.res.message = MsgReuse /\ pc'[p] = "idle"
          /\ RefreshLookup(p, c[1], c[2]))
            => \A r \in refreshTokens' :
                   r.tokenFamily = c[2] => r.revokedAt # NullDate]_vars

(* C7, amended: a Refresh answered "Token reuse detected" is answered 401    *)
(* without cookies and leaves every record as it was: no record is revoked.  *)
C7_ReuseChangesNoRecord ==
    [][\A p \in Procs, c \in CookieInputs :
         (last'.res.message = MsgReuse /\ pc'[p] = "idle"
          /\ RefreshLookup(p, c[1], c[2]))
            => /\ refreshTokens' = refreshTokens
               /\ last'.res = Fail(401, MsgReuse)]_vars

C7_ReuseAnswered ==
    /\ last.res.message = MsgReuse
    /\ \E r \in refreshTokens : IsReplaced(r) /\ r.revokedAt = NullDate

C9_LogoutAllIsolation ==
    [][\A p \in Procs, u \in users :
         (last'.req.op = "logoutAll" /\ LogoutAllDevices(p, u.id))
            => /\ \A r \in refreshTokens :
                      IF r.userId = u.id /\ r.revokedAt = NullDate
                      THEN [r EXCEPT !.revokedAt = now] \in refreshTokens'
                      ELSE r \in refreshTokens'
               /\ \A r \in refreshTokens' :
                      r.userId = u.id => r.revokedAt # NullDate
               /\ Cardinality(refreshTokens') = Cardinality(refreshTokens)]_vars

C9_OneUserLoggedOut ==
    /\ last.req.op = "logoutAll"
    /\ \E r \in refreshTokens : r.userId = last.req.userId /\ r.revokedAt # NullDate
    /\ \E r \in refreshTokens : r.userId # last.req.userId /\ r.revokedAt = NullDate

(* C10: requireRole calls next() exactly when req.user is present and its    *)
(* role is one of the allowed roles; it answers 403 when the user is present *)
(* with another role and 401 when there is no user; in every case it either  *)
(* calls next() once or sends one response, never both.                      *)
C10_RequireRoleGate ==
    gateRes.called =>
        LET present == gateReq.user # <<>>
            allowed == present /\ \E i \in 1..Len(gateReq.allowedRoles) :
                                      gateReq.allowedRoles[i] = gateReq.user[1].role
        IN
        /\ gateRes.nextCalls = 1 <=> allowed
        /\ (present /\ ~allowed) =>
               (Len(gateRes.responses) = 1 /\ gateRes.responses[1].status = 403)
        /\ ~present =>
               (Len(gateRes.responses) = 1 /\ gateRes.responses[1].status = 401)
        /\ gateRes.nextCalls + Len(gateRes.responses) = 1

C10_Forbidden ==
    /\ gateRes.called
    /\ gateReq.user # <<>>
    /\ Len(gateReq.allowedRoles) = 2
    /\ gateRes.nextCalls = 0
    /\ Len(gateRes.responses) = 1 /\ gateRes.responses[1].status = 403

(* The Authorization header is a Bearer header whose token has three parts   *)
(* and the signature of this server over what it says                        *)
Authentic(header) ==
    /\ header.scheme = "Bearer"
    /\ header.token.parts = 3
    /\ header.token.sig = <<JwtSecret, header.token.payload, header.token.iat,
                            header.token.exp>>

HandlerNames == {"addBook", "updateBook", "deleteBook", "registerAdmin"}

(* C11: on the guarded routes a handler runs only after authMiddleware and   *)
(* then requireRole have run, for an authentic token with role admin; a      *)
(* request whose token is not authentic or whose role is user ends in 401 or *)
(* 403 without a handler having run; and no step but a handler's changes the *)
(* books or the users collection.                                            *)
C11_AdminOnlyMutations ==
    /\ []((http.stage = "handler" \/ \E i \in 1..Len(http.trail) : http.trail[i] \in HandlerNames)
            => /\ Len(http.trail) >= 2
               /\ http.trail[1] = "authMiddleware" /\ http.trail[2] = "requireRole"
               /\ \A i \in 1..Len(http.trail) : http.trail[i] \in HandlerNames => i = 3
               /\ Authentic(http.header)
               /\ http.header.token.payload.role = "admin"
               /\ http.user # <<>> /\ http.user[1].role = "admin")
    /\ []((http.stage = "done"
           /\ (~Authentic(http.header) \/ http.header.token.payload.role # "admin"))
            => /\ Len(http.res) = 1 /\ http.res[1].status \in {401, 403}
               /\ \A i \in 1..Len(http.trail) : http.trail[i] \notin HandlerNames)
    /\ [][(books' # books \/ users' # users)
            => (http.stage = "handler" /\ http'.stage = "done")]_vars

C11_UserTurnedAway ==
    /\ http.stage = "done"
    /\ http.route = "DELETE /books/:id"
    /\ \E b \in books : b.id = http.id
    /\ Authentic(http.header) /\ http.header.token.payload.role = "user"
    /\ http.trail = <<"authMiddleware", "requireRole">>
    /\ Len(http.res) = 1 /\ http.res[1].status = 403

(* C12: authMiddleware sets req.user and calls next() exactly for a Bearer   *)
(* token whose signature verifies and whose exp has not passed; it answers   *)
(* an expired token and a malformed or wrongly signed one with 401 and       *)
(* different messages, and a missing or non-Bearer header with 401.          *)
C12_VerificationKinds ==
    [][(http.stage = "authMiddleware" /\ http' # http)
         => LET expired == now >= http.header.token.exp
                passes == Authentic(http.header) /\ ~expired
            IN
            /\ (http'.user # <<>>) <=> passes
            /\ (http'.stage = "requireRole") <=> passes
            /\ passes => http'.res = <<>>
            /\ ~passes => /\ http'.stage = "done"
                          /\ Len(http'.res) = 1 /\ http'.res[1].status = 401
            /\ (Authentic(http.header) /\ expired)
                   => http'.res[1].message = MsgTokenExpired
            /\ (http.header.scheme = "Bearer" /\ ~Authentic(http.header))
                   => http'.res[1].message \notin {MsgTokenExpired, MsgAuthRequired}
            /\ http.header.scheme # "Bearer"
                   => http'.res[1].message = MsgAuthRequired]_vars

C12_ExpiredAnswered ==
    /\ http.stage = "done"
    /\ http.trail = <<"authMiddleware">>
    /\ Authentic(http.header)
    /\ http.user = <<>>
    /\ http.res = <<[status |-> 401, message |-> MsgTokenExpired]>>

(* the status handleErrors is to answer with: the numeric status of the      *)
(* error, else its numeric statusCode, else 500                              *)
StatusOf(error) ==
    IF error.status # <<>> THEN error.status[1]
    ELSE IF error.statusCode # <<>> THEN error.statusCode[1] ELSE 500

(* C13, as stated: the response status is the error's numeric status, else   *)
(* its numeric statusCode, else 500, and a 5xx error's message is always     *)
(* replaced by the generic string.                                           *)
C13_ServerErrorsAlwaysGeneric ==
    errCall.called =>
        /\ errCall.res.status = StatusOf(errCall.error)
        /\ errCall.res.status >= 500 => errCall.res.message = MsgUnexpected

(* C13, amended: the response status is the error's numeric status, else its *)
(* numeric statusCode, else 500.  The message is the error's message, or     *)
(* "Internal server error" when that is empty; unless NODE_ENV is            *)
(* "development", the message of an error whose status is not 4xx is         *)
(* replaced by the generic string; when NODE_ENV is "development" every      *)
(* message, a 5xx error's too, is returned as it is.                         *)
C13_ErrorFormatting ==
    errCall.called =>
        LET message == IF errCall.error.message # "" THEN errCall.error.message
                       ELSE MsgInternal
            clientError == errCall.res.status >= 400 /\ errCall.res.status < 500
        IN
        /\ errCall.res.status = StatusOf(errCall.error)
        /\ errCall.res.errorCode = errCall.res.status
        /\ errCall.nodeEnv = "development" => errCall.res.message = message
        /\ (errCall.nodeEnv # "development" /\ clientError)
               => errCall.res.message = message
        /\ (errCall.nodeEnv # "development" /\ ~clientError)
               => /\ errCall.res.message = MsgUnexpected
                  /\ errCall.res.message # errCall.error.message

C13_ServerErrorHidden ==
    /\ errCall.called
    /\ errCall.nodeEnv = "production"
    /\ errCall.error.status = <<>> /\ errCall.error.statusCode = <<503>>
    /\ errCall.error.message = "connect ECONNREFUSED 127.0.0.1:27017"
    /\ errCall.res = [status |-> 503, message |-> MsgUnexpected, errorCode |-> 503]

(* how many register calls on email e were answered with status st *)
Answers(e, st) == Cardinality({i \in 1..Len(regLog) : regLog[i] = <<e, st>>})

(* C14: whatever the interleaving of the register calls that carry one       *)
(* normalized email, at most one user holds that email; exactly one of the   *)
(* calls that got to User.create is answered 201, none if the email was      *)
(* registered before, and every other one 409.                               *)
C14_OneUserPerEmail ==
    \A e \in {ToLowerCase(b.email) : b \in RegisterBodies} :
        /\ Cardinality({u \in users : u.email = e}) <= 1
        /\ Answers(e, 201) = Cardinality({u \in users \ SeedUsers : u.email = e})
        /\ (Answers(e, 201) + Answers(e, 409) >= 1 /\ ~\E u \in SeedUsers : u.email = e)
               => Answers(e, 201) = 1
        /\ (\E u \in SeedUsers : u.email = e) => Answers(e, 201) = 0

C14_ConcurrentDuplicate ==
    /\ regLog = << <<"new@x.com", 201>>, <<"new@x.com", 409>> >>
    /\ \E p \in Procs : regCall[p] # NoReg /\ ToLowerCase(regCall[p].body.email) = "new@x.com"
    /\ Cardinality({u \in users : u.email = "new@x.com"}) = 1

(* jwt.verify of the access token of answer res, at the time it was issued *)
Verified(res) == JwtVerify(res.token[1], JwtSecret, res.token[1].iat)

(* the claims c say id, name, email and role of user u, iat and exp, and     *)
(* nothing else                                                              *)
ClaimsOf(c, u) ==
    /\ DOMAIN c = {"id", "name", "email", "role", "iat", "exp"}
    /\ c.id = u.id /\ c.name = u.name /\ c.email = u.email /\ c.role = u.role

(* C15: the access token of a successful login verifies to the id, name,     *)
(* email and role of the user who logged in, the values of the data object   *)
(* of that answer; the access token of a successful refresh verifies to      *)
(* those of the owner of the rotated record; no claim is the password hash.  *)
C15_AccessTokenRoundTrip ==
    [][/\ (last'.req.op = "login" /\ last'.res.status = 200 /\ nextUuid' = nextUuid + 2)
          => \E u \in users :
                /\ u.email = ToLowerCase(last'.req.email)
                /\ Verified(last'.res).error = ""
                /\ ClaimsOf(Verified(last'.res).decoded[1], u)
                /\ last'.res.data =
                       <<[id |-> u.id, name |-> u.name, email |-> u.email,
                          role |-> u.role]>>
       /\ \A p \in Procs :
            (pc[p] = "create" /\ pc'[p] = "idle")
            => \E u \in users :
                  /\ u.id = doc[p].userId
                  /\ last'.res.status = 200
                  /\ Verified(last'.res).error = ""
                  /\ ClaimsOf(Verified(last'.res).decoded[1], u)]_vars

C15_AdminRefreshed ==
    /\ last.req.op = "refresh" /\ last.res.status = 200
    /\ Verified(last.res).error = ""
    /\ Verified(last.res).decoded[1].role = "admin"
    /\ \E u \in users : u.role = "admin" /\ ClaimsOf(Verified(last.res).decoded[1], u)

(* C16: once a record's replacedByTokenHash holds a hash, no step changes    *)
(* it: the field goes from null to a hash at most once and a second save     *)
(* never overwrites it.                                                      *)
C16_ReplacedWrittenOnce ==
    [][\A r \in refreshTokens : \A r2 \in refreshTokens' :
          (r.id = r2.id /\ r.replacedByTokenHash # NullHash)
              => r2.replacedByTokenHash = r.replacedByTokenHash]_vars

(* C17: in every state each record that is marked replaced has a successor   *)
(* in its family whose tokenHash is the recorded hash.                       *)
C17_ReplacedHasSuccessor ==
    \A r \in refreshTokens :
        IsReplaced(r) =>
            \E n \in refreshTokens :
                n.tokenFamily = r.tokenFamily /\ n.tokenHash = r.replacedByTokenHash

(* C18: a login answered 200 adds one record to the collection and changes   *)
(* none: the new record belongs to the user who logged in, its family is     *)
(* the family of no record held before, it is neither replaced nor revoked   *)
(* and it expires 7 days from now.                                           *)
C18_LoginInsertsOneRecord ==
    [][(last'.req.op = "login" /\ last'.res.status = 200 /\ nextUuid' = nextUuid + 2)
          => \E u \in users : \E n \in refreshTokens' :
                /\ u.email = ToLowerCase(last'.req.email)
                /\ n \notin refreshTokens
                /\ refreshTokens' = refreshTokens \cup {n}
                /\ n.userId = u.id
                /\ \A r \in refreshTokens : r.tokenFamily # n.tokenFamily /\ r.id # n.id
                /\ n.tokenFamily = last'.res.cookies[2]
                /\ BcryptCompare(last'.res.cookies[1], n.tokenHash)
                /\ n.replacedByTokenHash = NullHash
                /\ n.revokedAt = NullDate
                /\ n.expiresAt = now + REFRESH_TOKEN_EXPIRES_IN_DAYS]_vars

C18_SecondSession ==
    /\ last.req.op = "login" /\ last.res.status = 200
    /\ \E n \in refreshTokens : \E r \in refreshTokens :
          /\ n.tokenFamily = last.res.cookies[2]
          /\ r.userId = n.userId /\ r.tokenFamily # n.tokenFamily
          /\ r.revokedAt = NullDate /\ r.expiresAt > now /\ ~IsReplaced(r)

(* C19: a refresh that is refused because a cookie is missing, the family    *)
(* has no active record, the token does not match the stored hash or the     *)
(* owner does not exist creates no record, changes none and sets no cookie.  *)
C19_FailingRefreshChangesNothing ==
    [][(/\ last' # last
        /\ last'.req.op = "refresh"
        /\ last'.res.status = 401
        /\ last'.res.message \in
               {MsgMissing, MsgInvalidOrExpired, MsgInvalidToken, MsgUserNotFound})
          => /\ refreshTokens' = refreshTokens
             /\ last'.res.cookies = <<>>
             /\ last'.res.token = <<>>
             /\ jar' = jar]_vars

C19_MismatchRefused ==
    /\ last.req.op = "refresh"
    /\ last.res.status = 401 /\ last.res.message = MsgInvalidToken
    /\ \E r \in refreshTokens : r.revokedAt = NullDate /\ r.expiresAt > now

(* C20: the record a successful refresh creates has the tokenFamily and the  *)
(* userId of the record it rotates, and the tokenFamily cookie of the answer *)
(* is the one presented; so in every state all records of one family belong  *)
(* to one user.                                                              *)
C20_FamilyAndOwnerContinuity ==
    /\ [](\A r \in refreshTokens : \A n \in refreshTokens :
              r.tokenFamily = n.tokenFamily => r.userId = n.userId)
    /\ [][\A p \in Procs :
             (pc[p] = "create" /\ pc'[p] = "idle")
                => /\ last'.res.status = 200
                   /\ last'.res.cookies[2] = req[p].tokenFamily
                   /\ \E n \in refreshTokens' :
                         /\ refreshTokens' = refreshTokens \cup {n}
                         /\ BcryptCompare(last'.res.cookies[1], n.tokenHash)
                         /\ n.tokenFamily = doc[p].tokenFamily
                         /\ n.userId = doc[p].userId]_vars

C20_SuccessorInFamily ==
    /\ last.req.op = "refresh" /\ last.res.status = 200
    /\ \E r \in refreshTokens : \E n \in refreshTokens :
          /\ BcryptCompare(last.res.cookies[1], n.tokenHash)
          /\ r.replacedByTokenHash = n.tokenHash
          /\ r.tokenFamily = n.tokenFamily /\ r.userId = n.userId
          /\ n.userId = 2

(* the POST /auth/refresh requests in flight *)
InFlight == {i \in 1..Len(rounds) : rounds[i] = "pending"}

(* C21: whatever the interleaving of the httpClient calls that get 401 with  *)
(* an access token held, at most one POST /auth/refresh is in flight, and a  *)
(* call that sees a refresh in progress starts none.                         *)
C21_SingleRefresh ==
    /\ [](/\ Cardinality(InFlight) <= 1
          /\ Cardinality({c \in HttpCalls : call[c].pc = "refresh"}) <= 1
          /\ isRefreshing <=> InFlight # {})
    /\ [][\A c \in HttpCalls :
             (isRefreshing /\ call[c].pc = "fetch")
                => (call'[c].pc # "refresh" /\ Len(rounds') = Len(rounds))]_vars

C21_SecondCallQueued ==
    /\ isRefreshing
    /\ \E c \in HttpCalls : \E d \in HttpCalls :
          /\ call[c].pc = "refresh" /\ call[d].pc = "wait"
          /\ call[d].round = call[c].round
          /\ refreshSubscribers = <<d>>

(* C22: every call that got 401 with an access token held and whose refresh  *)
(* succeeded, the call that started the refresh included, is eventually      *)
(* retried and settles; none stays on the subscriber queue for ever.         *)
C22_RetriedAfterRefresh ==
    \A c \in HttpCalls :
        (/\ call[c].pc \in {"wait", "retry"}
         /\ rounds[call[c].round] = "ok")
            ~> (call[c].pc \in Settled)

(* C26: once a POST /auth/refresh has failed, no call that waited for it is  *)
(* still waiting on the queue, and a call that is released to its retry was  *)
(* released by the refresh it waited for, not by a later one.                *)
C26_FailedRefreshSettlesWaiters ==
    \A c \in HttpCalls :
        /\ call[c].pc = "wait" => rounds[call[c].round] # "failed"
        /\ call[c].pc = "retry" => call[c].releasedBy = call[c].round

(* C27: when the logout of AuthProvider settles, whether POST /auth/logout   *)
(* succeeded or not, user is null and isLoading is false; and in no state is *)
(* the access token cleared while user is not null.                          *)
C27_LogoutLeavesNoUser ==
    /\ [][\A c \in HttpCalls :
             (/\ call[c].endpoint = "/auth/logout"
              /\ call[c].pc \notin Settled
              /\ call'[c].pc \in Settled)
                => (clientUser' = NoClientUser /\ ~isLoading')]_vars
    /\ [](accessToken = NullToken => clientUser = NoClientUser)

(* C23: as long as no connection has failed and no disconnected event has    *)
(* been delivered, mongoose.connect has been initiated at most once, however *)
(* many connectMongoDB calls were made and however they overlap; and a call  *)
(* never opens a connection while isConnected is true.                       *)
C23_ConnectsOnce ==
    /\ [](~troubled => opened <= 1)
    /\ [][isConnected => opened' = opened]_vars

(* an environment that startServer refuses *)
Refused(e) ==
    \/ e.JWT_SECRET = ""
    \/ e.MONGODB_URI = ""
    \/ e.PORT \in {"-5", "70000"}

(* C24: the server listens only after connectMongoDB has returned; when the  *)
(* configuration is refused or connectMongoDB throws, the server never       *)
(* listens and the next step of the start is process.exit(1); the success    *)
(* report comes only after the connection and the listening.                 *)
C24_SequentialStartup ==
    /\ [](/\ boot.listening => (conn[0].pc = "returned" /\ ~Refused(processEnv))
          /\ boot.reported => (boot.listening /\ conn[0].pc = "returned")
          /\ (Refused(processEnv) \/ conn[0].pc = "threw")
                => (~boot.listening /\ ~boot.reported /\ opened <= 1)
          /\ Refused(processEnv) => opened = 0
          /\ boot.pc = "exit" => (boot.exitCode = 1 /\ ~boot.listening /\ ~boot.reported)
          /\ boot.pc # "exit" => boot.exitCode = 0)
    /\ [][(boot'.pc # boot.pc /\ (Refused(processEnv) \/ conn[0].pc = "threw"))
             => (boot'.pc = "exit" /\ boot'.exitCode = 1)]_vars

C24_Started ==
    /\ boot.pc = "started" /\ boot.reported /\ boot.listening
    /\ conn[0].message = MsgConnected
    /\ processEnv.PORT = "abc"

(* C25: whatever calls of addToCart, updateQuantity, removeFromCart and      *)
(* clearCart were made, the quantity of no item exceeds the stock of its     *)
(* book.                                                                     *)
C25_QuantityWithinStock ==
    \A i \in 1..Len(items) :
        (items[i].quantity # NaN /\ items[i].book.stock # NoStock)
            => items[i].quantity <= items[i].book.stock

(* C28: from an empty cart, whatever calls were made, each book id is in at  *)
(* most one item and every item has a quantity of at least 1.                *)
C28_CartWellFormed ==
    /\ \A i \in 1..Len(items) : \A j \in 1..Len(items) :
          items[i].book._id = items[j].book._id => i = j
    /\ \A i \in 1..Len(items) : JsGeq(items[i].quantity, 1)

====
